---- MODULE Spec2Model ----
(***************************************************************************)
(* GeoBan: the polling-and-diff engine of the leaderboard ban tracker.     *)
(* One check cycle (checkForBannedPlayers) loads the tracking file,        *)
(* pages the leaderboard, probes entities in three batched passes,         *)
(* reconciles the records, saves the file and notifies.  Any number of     *)
(* cycles may be triggered (timer, interval, !checkbans); each works on    *)
(* its own copy of the file's content.  Time is counted in hours.          *)
(***************************************************************************)
EXTENDS Integers, Sequences, FiniteSets, TLC

\* ------------------------------------------------------------------ bounds
NumEntities == 2
MaxCycles == 2
MaxPages == 2
PageSize == 1
MaxRateLimitRetries == 1
MaxDigits == 3
MaxAppends == 5
ListLen == 3
BatchSize == 2

Entities == 1..NumEntities
Cycles == 1..MaxCycles

\* ------------------------------------------------- program constants (hours)
RestartGapHours == 3
PriorityWindowHours == 6
MinHoursMissing == 1
MaxHoursMissing == 24
RecencyWindowHours == 168
MaxRetries == 3
DefaultRetryAfter == 15
MaxRatings == 30
HoursPerDay == 24

\* ----------------------------------------------- program constants (seconds)
RateLimitBaseWait == 15
RateLimitWaitStep == 5
RateLimitMaxWait == 45
NotFoundBaseWait == 2
NotFoundWaitStep == 1
OtherBaseWait == 3
OtherWaitStep == 2

\* Hours between the end of a cycle and the next trigger: the next hour,
\* after a pause longer than the restart gap, after the recency window.
Gaps == {1, 4, 168}
\* The hours of two earlier cycles, a recency window apart.
BannedHour == 1
LastCheckHour == BannedHour + RecencyWindowHours
\* Hours between two triggers when the earlier cycle may still be running.
ShortGaps == {0, 1}
\* Suspension end dates the server may report, relative to the probe time
\* (0: a timestamp that is not in the future).
SuspOffsets == {0, 1, 2}
\* retry-after headers a 429 answer may carry (0: none).
RetryHints == {0, 404}

Statuses == {"active", "banned", "suspended", "suspension_expired", "deleted_account"}
SanctionKinds == {"banned", "suspended"}
UnbanKinds == {"unban", "unsuspend"}
Passes == {"priority", "top2000", "existing"}

\* ------------------------------------------------------------- data model
\* One entry of data.players; tracked = FALSE stands for "no such key".
\* A time field of 0 stands for an absent property.
NoRecord ==
  [tracked |-> FALSE, status |-> "active", suspendedUntil |-> 0,
   lastSeen |-> 0, bannedAt |-> 0, suspendedAt |-> 0]

NewRecord(now) ==
  [tracked |-> TRUE, status |-> "active", suspendedUntil |-> 0,
   lastSeen |-> now, bannedAt |-> 0, suspendedAt |-> 0]

\* loadPlayerData when the file does not exist yet (eventCache: none).
EmptyData ==
  [players |-> [e \in Entities |-> NoRecord], lastCheck |-> 0, totalChecks |-> 0,
   currentCheckBans |-> {}, currentCheckUnbans |-> {}]

\* What one probing callback returns (null = kind "none").
NoResult ==
  [kind |-> "none", confirmedBanned |-> FALSE, suspended |-> FALSE,
   suspendedUntil |-> 0, isNewSanction |-> FALSE, isNewDeletion |-> FALSE]

DeletionResult ==
  [kind |-> "deleted", confirmedBanned |-> FALSE, suspended |-> FALSE,
   suspendedUntil |-> 0, isNewSanction |-> FALSE, isNewDeletion |-> TRUE]

SanctionResult(act, isNew) ==
  [kind |-> "sanction", confirmedBanned |-> act.banned, suspended |-> act.suspended,
   suspendedUntil |-> act.suspendedUntil, isNewSanction |-> isNew, isNewDeletion |-> FALSE]

NoResults == [e \in Entities |-> NoResult]

\* The final outcome of makeAPIRequest on /v3/users/<id>, as the server
\* decides it: a payload, or the failure of the last attempt.  retryAfter is
\* the retry-after header of a 429 answer (0: no header).
Responses(now) ==
  [code : {"ok"}, isBanned : {FALSE}, suspendedUntil : {0} \cup {now + o : o \in SuspOffsets},
   retryAfter : {0}]
  \cup [code : {"ok"}, isBanned : {TRUE}, suspendedUntil : {0}, retryAfter : {0}]
  \cup [code : {"404", "403", "timeout"}, isBanned : {FALSE}, suspendedUntil : {0},
        retryAfter : {0}]
  \cup [code : {"429"}, isBanned : {FALSE}, suspendedUntil : {0}, retryAfter : RetryHints]

\* A server that only ever answers "no sanction", "banned" or "not found".
PlainResponses ==
  [code : {"ok"}, isBanned : BOOLEAN, suspendedUntil : {0}, retryAfter : {0}]
  \cup [code : {"404"}, isBanned : {FALSE}, suspendedUntil : {0}, retryAfter : {0}]

\* ---------------------------------------------------------------- probing
\* An Error's message: its fixed text and the one number printed in it
\* (-1: the message has no digits).
NoNumber == 0 - 1

RetryAfterOf(header) == IF header = 0 THEN DefaultRetryAfter ELSE header

\* The message makeAPIRequest rejects an attempt with.
ErrorMessage(resp) ==
  IF resp.code = "429"
  THEN [text |-> "Rate limited. Retry after N seconds", n |-> RetryAfterOf(resp.retryAfter)]
  ELSE IF resp.code = "404" THEN [text |-> "HTTP N: User not accessible", n |-> 404]
  ELSE IF resp.code = "403" THEN [text |-> "HTTP N: User not accessible", n |-> 403]
  ELSE IF resp.code = "500" THEN [text |-> "HTTP Error: N", n |-> 500]
  ELSE IF resp.code = "invalid_json" THEN [text |-> "Invalid JSON response", n |-> NoNumber]
  ELSE [text |-> "Request timeout", n |-> NoNumber]

\* error.message.includes('<three digits>'): the digits appear in the
\* decimal form of the number the message prints.
MessageIncludes(msg, digits) ==
  /\ msg.n # NoNumber
  /\ \E k \in 0..MaxDigits : (msg.n \div (10 ^ k)) % 1000 = digits

\* new Date(suspendedUntil) > new Date()
IsSuspendedNotPast(suspendedUntil, now) == suspendedUntil # 0 /\ suspendedUntil >= now

IsSuspended(suspendedUntil, now) == suspendedUntil # 0 /\ suspendedUntil > now

GetUserActivity(resp, now) ==
  IF resp.code = "ok"
  THEN [threw |-> FALSE, accessible |-> TRUE, deleted |-> FALSE, banned |-> resp.isBanned,
        suspended |-> IsSuspended(resp.suspendedUntil, now),
        suspendedUntil |-> resp.suspendedUntil]
  ELSE IF MessageIncludes(ErrorMessage(resp), 404) \/ MessageIncludes(ErrorMessage(resp), 403)
  THEN [threw |-> FALSE, accessible |-> FALSE, deleted |-> TRUE, banned |-> FALSE,
        suspended |-> FALSE, suspendedUntil |-> 0]
  ELSE [threw |-> TRUE, accessible |-> FALSE, deleted |-> FALSE, banned |-> FALSE,
        suspended |-> FALSE, suspendedUntil |-> 0]

MarkDeletedWrongStatus(rec) == [rec EXCEPT !.status = "deleted"]

MarkDeleted(rec) == [rec EXCEPT !.status = "deleted_account"]

IsNewSanctionNever(rec, act) == FALSE

IsNewSanctionIgnoringEndDate(rec, act) ==
  IF act.banned THEN rec.status # "banned"
  ELSE act.suspended /\ rec.status # "suspended"

IsNewSanction(rec, act) ==
  IF act.banned THEN rec.status # "banned"
  ELSE act.suspended /\ (rec.status # "suspended" \/ rec.suspendedUntil # act.suspendedUntil)

\* Callback of verifyBannedPlayers (priority pass) on the entity's record.
VerifyBannedCallback(rec, act) ==
  IF act.threw THEN [rec |-> rec, result |-> NoResult]
  ELSE IF act.deleted
  THEN IF rec.status # "deleted_account"
       THEN [rec |-> MarkDeleted(rec), result |-> DeletionResult]
       ELSE [rec |-> rec, result |-> NoResult]
  ELSE IF act.banned \/ act.suspended
  THEN [rec |-> rec, result |-> SanctionResult(act, IsNewSanction(rec, act))]
  ELSE [rec |-> rec, result |-> NoResult]

\* Callback of verifyAllTop2000Players: as above, but an entity without a
\* record gets one before it is marked or compared.
VerifyTop2000Callback(rec, act, now) ==
  LET base == IF rec.tracked THEN rec ELSE NewRecord(now) IN
  IF act.threw THEN [rec |-> rec, result |-> NoResult]
  ELSE IF act.deleted
  THEN IF base.status # "deleted_account"
       THEN [rec |-> MarkDeleted(base), result |-> DeletionResult]
       ELSE [rec |-> base, result |-> NoResult]
  ELSE IF act.banned \/ act.suspended
  THEN [rec |-> base, result |-> SanctionResult(act, IsNewSanction(base, act))]
  ELSE [rec |-> rec, result |-> NoResult]

\* ------------------------------------------------------------------ state
VARIABLES
  clock,            \* wall time
  store,            \* content of player_tracking.json
  pc,               \* per cycle: where checkForBannedPlayers stands
  data,             \* per cycle: its loaded copy of the file
  offset,           \* per cycle: page index of fetchCurrentLeaderboard
  allPlayers,       \* per cycle: fetchCurrentLeaderboard's list so far
  rateLimited,      \* per cycle: 429 answers the leaderboard gave so far
  partial,          \* per cycle: pagination was cut by a page failure
  currentPlayers,   \* per cycle: the entities of the snapshot in use
  currentTime,      \* per cycle: Date.now() taken after the fetch
  isFirstCheckAfterRestart,
  pending,          \* per cycle: probes of the running pass still in flight
  priorityBannedPlayers,
  top2000ApiSanctionInfo,
  existingSanctionedApiInfo,
  storeAtStart,     \* history: the file's content when the cycle loaded it
  failed,           \* history: the cycle ended on the failure path
  probes,           \* history: <<pass, entity>> probes the cycle issued
  saves,            \* history: savePlayerData calls of the cycle
  statusMsgs,       \* history: sendStatusMessage calls, [err, ok]
  banNotifs,        \* history: sendBanNotification calls naming <<entity, kind>>
  unbanNotifs,      \* history: sendUnbanNotification calls per entity
  unbanAudit,       \* history: addToUnbannedUnsuspendedCSV calls per entity
  deletionEvents,   \* history: deletion events ever emitted, per entity
  restoredDuration, \* history: Duration_Days of the cycle's last audit line, per entity
  ratings,          \* one record's rating history
  appended,         \* samples pushed to it so far
  attempt,          \* makeAPIRequest: loop counter
  lastError,        \* makeAPIRequest: the failure caught last
  attempts,         \* history: what each transport attempt of the call met
  waits,            \* history: seconds slept after each failed attempt
  reqResult,        \* makeAPIRequest: how its promise settled
  activity,         \* what getUserActivity gave its caller
  passKind,         \* one probing pass: which of the three functions runs
  passState,        \* where its batch loop stands
  batchIndex,       \* its loop variable i
  promises,         \* the promises of the batch being awaited, per list entry
  probeCount,       \* history: getUserActivity calls per list entry
  met,              \* history: what the probe of each list entry met
  passResults,      \* what the callbacks returned, per list entry
  passPlayers,      \* data.players of the list's entities
  passUnbans,       \* data.eventCache.currentCheckUnbans
  processedCount,
  paceKind,         \* the pace of one pass: which of the three functions runs
  batchNum,         \* its batch number, from 1
  settled,          \* probes of the batch that have settled
  rateLimitHits,
  consecutiveErrors,
  delay,            \* milliseconds of the inter-batch sleep taken last
  sinceHalved,      \* history: inter-batch sleeps since the counters were halved
  notifierUp        \* the Discord channel can be fetched and sent to

fetchVars == <<offset, allPlayers, rateLimited, partial>>
timeVars == <<currentTime, isFirstCheckAfterRestart>>
resultVars == <<priorityBannedPlayers, top2000ApiSanctionInfo, existingSanctionedApiInfo>>
endVars == <<storeAtStart, failed, saves, statusMsgs>>
notifVars == <<banNotifs, unbanNotifs, unbanAudit, deletionEvents, restoredDuration>>
cycleVars ==
  <<clock, store, pc, data, fetchVars, currentPlayers, timeVars, pending,
    resultVars, endVars, probes, notifVars>>
requestVars == <<attempt, lastError, attempts, waits, reqResult, activity>>
batchVars ==
  <<passKind, passState, batchIndex, promises, probeCount, met, passResults, passPlayers,
    passUnbans, processedCount>>
paceVars ==
  <<paceKind, batchNum, settled, rateLimitHits, consecutiveErrors, delay, sinceHalved>>
sideVars == <<ratings, appended, requestVars, batchVars, paceVars, notifierUp>>
vars == <<cycleVars, sideVars>>

Range(s) == {s[i] : i \in 1..Len(s)}

ZeroBans == [k \in Entities \X SanctionKinds |-> 0]
ZeroPerEntity == [e \in Entities |-> 0]
NoMsgs == [err |-> 0, ok |-> 0]
NoDuration == 0 - 1
NoDurations == [e \in Entities |-> NoDuration]

NoResponse == [code |-> "none", isBanned |-> FALSE, suspendedUntil |-> 0, retryAfter |-> 0]
NoActivity ==
  [threw |-> FALSE, accessible |-> FALSE, deleted |-> FALSE, banned |-> FALSE,
   suspended |-> FALSE, suspendedUntil |-> 0]
Unsettled == [state |-> "idle", resp |-> NoResponse]

\* The entries of the list a probing pass is given.
Slots == 1..ListLen

\* No probing pass is being followed.
PassAtRest ==
  /\ passKind = "none"
  /\ passState = "idle"
  /\ batchIndex = 0
  /\ promises = [s \in Slots |-> "none"]
  /\ probeCount = [s \in Slots |-> 0]
  /\ met = [s \in Slots |-> NoResponse]
  /\ passResults = [s \in Slots |-> NoResult]
  /\ passPlayers = [s \in Slots |-> NoRecord]
  /\ passUnbans = {}
  /\ processedCount = 0

\* No pass is being paced.
PaceAtRest ==
  /\ paceKind = "none"
  /\ batchNum = 0
  /\ settled = 0
  /\ rateLimitHits = 0
  /\ consecutiveErrors = 0
  /\ delay = 0
  /\ sinceHalved = 0

\* No probe is being followed and no rating history is being looked at.
SideAtRest ==
  /\ ratings = <<>>
  /\ appended = 0
  /\ attempt = 0
  /\ lastError = NoResponse
  /\ attempts = <<>>
  /\ waits = <<>>
  /\ reqResult = Unsettled
  /\ activity = NoActivity
  /\ PassAtRest
  /\ PaceAtRest

\* No cycle has been triggered yet; the tracking file holds `file`.
CyclesAtRest(now, file) ==
  /\ clock = now
  /\ store = file
  /\ pc = [c \in Cycles |-> "idle"]
  /\ data = [c \in Cycles |-> EmptyData]
  /\ offset = [c \in Cycles |-> 0]
  /\ allPlayers = [c \in Cycles |-> <<>>]
  /\ rateLimited = [c \in Cycles |-> 0]
  /\ partial = [c \in Cycles |-> FALSE]
  /\ currentPlayers = [c \in Cycles |-> {}]
  /\ currentTime = [c \in Cycles |-> 0]
  /\ isFirstCheckAfterRestart = [c \in Cycles |-> FALSE]
  /\ pending = [c \in Cycles |-> {}]
  /\ priorityBannedPlayers = [c \in Cycles |-> NoResults]
  /\ top2000ApiSanctionInfo = [c \in Cycles |-> NoResults]
  /\ existingSanctionedApiInfo = [c \in Cycles |-> NoResults]
  /\ storeAtStart = [c \in Cycles |-> EmptyData]
  /\ failed = [c \in Cycles |-> FALSE]
  /\ probes = [c \in Cycles |-> {}]
  /\ saves = [c \in Cycles |-> 0]
  /\ statusMsgs = [c \in Cycles |-> NoMsgs]
  /\ banNotifs = [c \in Cycles |-> ZeroBans]
  /\ unbanNotifs = [c \in Cycles |-> ZeroPerEntity]
  /\ unbanAudit = [c \in Cycles |-> ZeroPerEntity]
  /\ deletionEvents = ZeroPerEntity
  /\ restoredDuration = [c \in Cycles |-> NoDurations]

Init == CyclesAtRest(1, EmptyData) /\ SideAtRest /\ notifierUp = TRUE

\* ---------------------------------------------------------------- notifier
NotifyThrowing(up) == [delivered |-> up, threw |-> ~up]

\* sendBanNotification, sendUnbanNotification, sendDeletedAccountNotification
\* and sendStatusMessage: the whole body is in try { } catch { log }, so a
\* failed fetch or send of the channel is swallowed.
Notify(up) == [delivered |-> up, threw |-> FALSE]

\* The catch block of checkForBannedPlayers: an error status message.
CatchBlock(c) ==
  /\ statusMsgs' = [statusMsgs EXCEPT ![c].err = @ + 1]
  /\ failed' = [failed EXCEPT ![c] = TRUE]
  /\ pc' = [pc EXCEPT ![c] = "done"]
  /\ UNCHANGED <<sideVars, clock, store, data, fetchVars, currentPlayers, timeVars, pending,
                 resultVars, storeAtStart, saves, probes, notifVars>>

\* ------------------------------------------------------- trigger and fetch
\* What is kept of the cycles that have returned once a new call starts:
\* their locals and their history are dropped ("spent").
Spent(f, init) == [b \in Cycles |-> IF pc[b] \in {"done", "spent"} THEN init ELSE f[b]]

\* checkForBannedPlayers is entered: it loads the file and starts paging.
\* Nothing in it looks at whether another call is still running.
StartCycle(c, gap) ==
  /\ pc[c] = "idle"
  /\ \A b \in Cycles : b < c => pc[b] # "idle"
  /\ clock' = clock + gap
  /\ pc' = [b \in Cycles |-> IF b = c THEN "fetch"
                             ELSE IF pc[b] = "done" THEN "spent" ELSE pc[b]]
  /\ data' = [Spent(data, EmptyData) EXCEPT ![c] = store]
  /\ storeAtStart' = [Spent(storeAtStart, EmptyData) EXCEPT ![c] = store]
  /\ currentPlayers' = Spent(currentPlayers, {})
  /\ currentTime' = Spent(currentTime, 0)
  /\ isFirstCheckAfterRestart' = Spent(isFirstCheckAfterRestart, FALSE)
  /\ priorityBannedPlayers' = Spent(priorityBannedPlayers, NoResults)
  /\ top2000ApiSanctionInfo' = Spent(top2000ApiSanctionInfo, NoResults)
  /\ existingSanctionedApiInfo' = Spent(existingSanctionedApiInfo, NoResults)
  /\ failed' = Spent(failed, FALSE)
  /\ probes' = Spent(probes, {})
  /\ saves' = Spent(saves, 0)
  /\ statusMsgs' = Spent(statusMsgs, NoMsgs)
  /\ banNotifs' = Spent(banNotifs, ZeroBans)
  /\ unbanNotifs' = Spent(unbanNotifs, ZeroPerEntity)
  /\ unbanAudit' = Spent(unbanAudit, ZeroPerEntity)
  /\ restoredDuration' = Spent(restoredDuration, NoDurations)
  /\ UNCHANGED <<sideVars, store, fetchVars, pending, deletionEvents>>

InFlight == {c \in Cycles : pc[c] \notin {"idle", "done", "spent"}}

\* A trigger that arrives when no cycle is running: the startup timer one
\* second after login, later the interval or a !checkbans command.
TriggerWhenIdle(c) ==
  /\ InFlight = {}
  /\ \E gap \in (IF c = 1 THEN {0} ELSE Gaps) : StartCycle(c, gap)

\* A trigger at any moment, also while a cycle is running.
TriggerAnytime(c) ==
  \E gap \in (IF c = 1 THEN {0} ELSE ShortGaps) : StartCycle(c, gap)

\* The pages the server can answer with: up to PageSize entities in rank
\* order, none of them listed on an earlier page.
PagesOf(avail) ==
  {p \in UNION {[1..n -> avail] : n \in 1..PageSize} :
     \A i, j \in DOMAIN p : i # j => p[i] # p[j]}

LastPage(c) == offset[c] + 1 >= MaxPages

\* fetchCurrentLeaderboard returns: its locals are gone.
EndFetch(c) ==
  /\ pc' = [pc EXCEPT ![c] = "loaded"]
  /\ offset' = [offset EXCEPT ![c] = 0]
  /\ rateLimited' = [rateLimited EXCEPT ![c] = 0]

\* The loop's step (offset += 100), counted in pages.
NextOffset(o) == o + 1

RetryOffsetSkipping(o) == NextOffset(o)

\* offset -= 100 and continue: the loop's step brings the same offset back.
RetryOffset(o) == NextOffset(o - 1)

\* A page with entries: appended, next offset.
FetchPageOk(c) ==
  /\ pc[c] = "fetch"
  /\ \E p \in PagesOf(Entities \ Range(allPlayers[c])) :
       allPlayers' = [allPlayers EXCEPT ![c] = @ \o p]
  /\ IF LastPage(c) THEN EndFetch(c)
     ELSE /\ offset' = [offset EXCEPT ![c] = NextOffset(@)]
          /\ UNCHANGED <<pc, rateLimited>>
  /\ UNCHANGED <<sideVars, clock, store, data, partial, currentPlayers, timeVars, pending,
                 resultVars, endVars, probes, notifVars>>

\* An empty page ends pagination.
FetchPageEmpty(c) ==
  /\ pc[c] = "fetch"
  /\ EndFetch(c)
  /\ UNCHANGED <<sideVars, clock, store, data, allPlayers, partial, currentPlayers, timeVars,
                 pending, resultVars, endVars, probes, notifVars>>

\* makeAPIRequest rejected with "Rate limited": wait, same offset again.
FetchPageRateLimited(c) ==
  /\ pc[c] = "fetch"
  /\ rateLimited[c] < MaxRateLimitRetries
  /\ rateLimited' = [rateLimited EXCEPT ![c] = @ + 1]
  /\ offset' = [offset EXCEPT ![c] = RetryOffset(@)]
  /\ UNCHANGED <<sideVars, clock, store, pc, data, allPlayers, partial, currentPlayers,
                 timeVars, pending, resultVars, endVars, probes, notifVars>>

\* The same once MaxRateLimitRetries such answers have been counted: the
\* count is not followed further. The loop logs and starts its sleep of
\* 15 seconds.
FetchPageRateLimitedAgain(c) ==
  /\ pc[c] = "fetch"
  /\ rateLimited[c] = MaxRateLimitRetries
  /\ pc' = [pc EXCEPT ![c] = "cooling"]
  /\ UNCHANGED <<sideVars, clock, store, data, fetchVars, currentPlayers, timeVars, pending,
                 resultVars, endVars, probes, notifVars>>

\* The sleep is over: offset -= 100; continue. The same page is requested
\* again, with no limit on how often.
CooldownOver(c) ==
  /\ pc[c] = "cooling"
  /\ pc' = [pc EXCEPT ![c] = "fetch"]
  /\ UNCHANGED <<sideVars, clock, store, data, fetchVars, currentPlayers, timeVars, pending,
                 resultVars, endVars, probes, notifVars>>

\* makeAPIRequest rejected with anything else: pagination stops with what
\* was gathered.
FetchPageFailed(c) ==
  /\ pc[c] = "fetch"
  /\ partial' = [partial EXCEPT ![c] = TRUE]
  /\ EndFetch(c)
  /\ UNCHANGED <<sideVars, clock, store, data, allPlayers, currentPlayers, timeVars, pending,
                 resultVars, endVars, probes, notifVars>>

\* ------------------------------------------------------------ preparation
IsFirstCheckFromGap(d, now) == d.lastCheck = 0 \/ (now - d.lastCheck) >= RestartGapHours

\* !data.lastCheck || (currentTime - data.lastCheck) > 3 hours
IsFirstCheck(d, now) == d.lastCheck = 0 \/ (now - d.lastCheck) > RestartGapHours

SnapshotNeverUnavailable(players) == FALSE

SnapshotUnavailable(players) == Len(players) = 0

HoursSinceSeen(rec, now) == now - rec.lastSeen

\* The recently missing entities the priority pass probes.
MissingPlayers(d, snap, now) ==
  {e \in Entities :
     /\ d.players[e].tracked
     /\ d.players[e].lastSeen > now - PriorityWindowHours
     /\ d.players[e].status = "active"
     /\ e \notin snap
     /\ HoursSinceSeen(d.players[e], now) >= MinHoursMissing
     /\ HoursSinceSeen(d.players[e], now) < MaxHoursMissing}

KeepEventCache(d) == d

ResetEventCache(d) == [d EXCEPT !.currentCheckBans = {}, !.currentCheckUnbans = {}]

\* From the return of the fetch to the start of the first pass.
Prepare(c) ==
  /\ pc[c] = "loaded"
  /\ currentTime' = [currentTime EXCEPT ![c] = clock]
  /\ data' = [data EXCEPT ![c] = ResetEventCache(@)]
  /\ isFirstCheckAfterRestart' =
       [isFirstCheckAfterRestart EXCEPT ![c] = IsFirstCheck(data[c], clock)]
  /\ allPlayers' = [allPlayers EXCEPT ![c] = <<>>]
  /\ partial' = [partial EXCEPT ![c] = FALSE]
  /\ IF SnapshotUnavailable(allPlayers[c])
     THEN /\ statusMsgs' = [statusMsgs EXCEPT ![c].err = @ + 1]
          /\ failed' = [failed EXCEPT ![c] = TRUE]
          /\ pc' = [pc EXCEPT ![c] = "done"]
          /\ UNCHANGED <<pending, currentPlayers>>
     ELSE LET snap == Range(allPlayers[c])
              missing == MissingPlayers(data[c], snap, clock) IN
          /\ currentPlayers' = [currentPlayers EXCEPT ![c] = snap]
          /\ pending' = [pending EXCEPT ![c] = IF missing # {} THEN missing ELSE snap]
          /\ pc' = [pc EXCEPT ![c] = IF missing # {} THEN "priority" ELSE "top2000"]
          /\ UNCHANGED <<statusMsgs, failed>>
  /\ UNCHANGED <<sideVars, clock, store, offset, rateLimited, resultVars, storeAtStart, saves,
                 probes, notifVars>>

\* ---------------------------------------------------------- priority pass
\* One probe of verifyBannedPlayers settles: getUserActivity, then the callback.
PriorityProbe(c, e, resp) ==
  /\ pc[c] = "priority"
  /\ e \in pending[c]
  /\ LET out == VerifyBannedCallback(data[c].players[e], GetUserActivity(resp, clock)) IN
     /\ data' = [data EXCEPT ![c].players[e] = out.rec]
     /\ priorityBannedPlayers' = [priorityBannedPlayers EXCEPT ![c][e] = out.result]
  /\ pending' = [pending EXCEPT ![c] = @ \ {e}]
  /\ probes' = [probes EXCEPT ![c] = @ \cup {<<"priority", e>>}]
  /\ UNCHANGED <<sideVars, clock, store, pc, fetchVars, currentPlayers, timeVars,
                 top2000ApiSanctionInfo, existingSanctionedApiInfo, endVars, notifVars>>

IsNewBan(r) == r.isNewSanction /\ r.kind # "deleted"
IsNewDeletionEvent(r) == r.kind = "deleted" /\ r.isNewDeletion

BanKind(r) == IF r.confirmedBanned THEN "banned" ELSE "suspended"
BanKey(e, r) == <<e, BanKind(r)>>

ApplySanctionEventKeepStart(rec, r, now) ==
  IF ~rec.tracked THEN rec
  ELSE IF r.confirmedBanned
  THEN [rec EXCEPT !.status = "banned", !.suspendedUntil = 0, !.suspendedAt = 0]
  ELSE IF r.suspended
  THEN [rec EXCEPT !.status = "suspended", !.suspendedUntil = r.suspendedUntil]
  ELSE rec

\* The record update under a fresh dedup key.
ApplySanctionEvent(rec, r, now) ==
  IF ~rec.tracked THEN rec
  ELSE IF r.confirmedBanned
  THEN [rec EXCEPT !.bannedAt = IF rec.status # "banned" THEN now ELSE @,
                   !.status = "banned", !.suspendedUntil = 0, !.suspendedAt = 0]
  ELSE IF r.suspended
  THEN [rec EXCEPT !.suspendedAt =
                      IF rec.status # "suspended" \/ rec.suspendedUntil # r.suspendedUntil
                      THEN now ELSE @,
                   !.status = "suspended", !.suspendedUntil = r.suspendedUntil]
  ELSE rec

\* The loop over one list of new sanction events (one event per entity):
\* an event whose key is already set is skipped, else the key is set and
\* the record updated.
ApplyEvents(d, results, now) ==
  LET fresh == {e \in Entities :
                  IsNewBan(results[e]) /\ BanKey(e, results[e]) \notin d.currentCheckBans} IN
  [d EXCEPT !.currentCheckBans = @ \cup {BanKey(e, results[e]) : e \in fresh},
            !.players = [e \in Entities |->
                           IF e \in fresh THEN ApplySanctionEvent(@[e], results[e], now)
                           ELSE @[e]]]

\* sendBanNotification(list): one more call for every <<entity, kind>> it names.
NotifyBans(n, named) == [k \in DOMAIN n |-> IF k \in named THEN n[k] + 1 ELSE n[k]]

CountUp(n, S) == [e \in DOMAIN n |-> IF e \in S THEN n[e] + 1 ELSE n[e]]

\* The priority pass has events to hand to the notifier.
PriorityNotifies(c) ==
  \E e \in Entities :
    IsNewBan(priorityBannedPlayers[c][e]) \/ IsNewDeletionEvent(priorityBannedPlayers[c][e])

\* After the last batch of the priority pass: notify, apply, save.
PriorityDone(c) ==
  /\ pc[c] = "priority"
  /\ pending[c] = {}
  /\ IF PriorityNotifies(c) /\ Notify(notifierUp).threw
     THEN CatchBlock(c)
     ELSE /\ LET res == priorityBannedPlayers[c]
                 newBans == {e \in Entities : IsNewBan(res[e])}
                 newDeletions == {e \in Entities : IsNewDeletionEvent(res[e])}
                 d2 == IF newBans # {} THEN ApplyEvents(data[c], res, currentTime[c]) ELSE data[c]
             IN
             /\ banNotifs' = [banNotifs EXCEPT ![c] = NotifyBans(@, {BanKey(e, res[e]) : e \in newBans})]
             /\ deletionEvents' = CountUp(deletionEvents, newDeletions)
             /\ data' = [data EXCEPT ![c] = d2]
             /\ IF \E e \in Entities : res[e].kind # "none"
                THEN /\ store' = d2
                     /\ saves' = [saves EXCEPT ![c] = @ + 1]
                ELSE UNCHANGED <<store, saves>>
          /\ pc' = [pc EXCEPT ![c] = "top2000"]
          /\ pending' = [pending EXCEPT ![c] = currentPlayers[c]]
          /\ UNCHANGED <<sideVars, clock, fetchVars, currentPlayers, timeVars, resultVars, storeAtStart,
                         failed, statusMsgs, probes, unbanNotifs, unbanAudit,
                         restoredDuration>>

\* --------------------------------------------------- full-population pass
TopProbe(c, e, resp) ==
  /\ pc[c] = "top2000"
  /\ e \in pending[c]
  /\ LET out == VerifyTop2000Callback(data[c].players[e], GetUserActivity(resp, clock),
                                      currentTime[c]) IN
     /\ data' = [data EXCEPT ![c].players[e] = out.rec]
     /\ top2000ApiSanctionInfo' = [top2000ApiSanctionInfo EXCEPT ![c][e] = out.result]
  /\ pending' = [pending EXCEPT ![c] = @ \ {e}]
  /\ probes' = [probes EXCEPT ![c] = @ \cup {<<"top2000", e>>}]
  /\ UNCHANGED <<sideVars, clock, store, pc, fetchVars, currentPlayers, timeVars,
                 priorityBannedPlayers, existingSanctionedApiInfo, endVars, notifVars>>

\* Duration_Days of addToUnbannedUnsuspendedCSV, called before the status
\* is changed: whole days since bannedAt || suspendedAt, 0 without either.
SanctionStart(rec) == IF rec.bannedAt # 0 THEN rec.bannedAt ELSE rec.suspendedAt

ActionDuration(rec, now) ==
  IF rec.bannedAt # 0 \/ rec.suspendedAt # 0
  THEN (now - SanctionStart(rec)) \div HoursPerDay
  ELSE 0

OrNow(t, now) == IF t # 0 THEN t ELSE now

UnbanKey(e, status) == <<e, IF status = "banned" THEN "unban" ELSE "unsuspend">>

MergeSanctionNoEndDate(rec, api, now) ==
  IF api.confirmedBanned
  THEN [rec EXCEPT !.status = "banned", !.bannedAt = OrNow(@, now),
                   !.suspendedUntil = 0, !.suspendedAt = 0]
  ELSE [rec EXCEPT !.status = "suspended", !.suspendedAt = OrNow(@, now)]

\* The sanction branch of the reconciliation loop.
MergeSanction(rec, api, now) ==
  IF api.isNewSanction
  THEN IF api.confirmedBanned
       THEN [rec EXCEPT !.status = "banned", !.bannedAt = OrNow(@, now),
                        !.suspendedUntil = 0, !.suspendedAt = 0]
       ELSE [rec EXCEPT !.status = "suspended", !.suspendedAt = OrNow(@, now),
                        !.suspendedUntil = api.suspendedUntil]
  ELSE IF rec.status = "active"
  THEN IF api.confirmedBanned
       THEN [rec EXCEPT !.status = "banned", !.bannedAt = OrNow(@, now)]
       ELSE [rec EXCEPT !.status = "suspended", !.suspendedAt = OrNow(@, now),
                        !.suspendedUntil = api.suspendedUntil]
  ELSE rec

\* The status an entity without a sanction result is given.
RestoreStatus(rec) == [rec EXCEPT !.status = "active"]

\* The restoration branch: announced under a fresh key when the restart
\* guard is off, silent otherwise.
MergeRestoreNotifyAll(rec, e, unbans, isFirst) ==
  IF rec.status \in {"banned", "suspended", "suspension_expired"} /\ ~isFirst
  THEN IF UnbanKey(e, rec.status) \notin unbans
       THEN [rec |-> RestoreStatus(rec), unbans |-> unbans \cup {UnbanKey(e, rec.status)},
             notify |-> TRUE, audit |-> TRUE]
       ELSE [rec |-> rec, unbans |-> unbans, notify |-> FALSE, audit |-> FALSE]
  ELSE IF rec.status # "active" /\ rec.status # "deleted_account"
  THEN [rec |-> RestoreStatus(rec), unbans |-> unbans, notify |-> FALSE, audit |-> FALSE]
  ELSE [rec |-> rec, unbans |-> unbans, notify |-> FALSE, audit |-> FALSE]

MergeRestore(rec, e, unbans, isFirst) ==
  IF rec.status \in {"banned", "suspended", "suspension_expired"} /\ ~isFirst
  THEN IF UnbanKey(e, rec.status) \notin unbans
       THEN [rec |-> RestoreStatus(rec), unbans |-> unbans \cup {UnbanKey(e, rec.status)},
             notify |-> rec.status = "banned", audit |-> TRUE]
       ELSE [rec |-> rec, unbans |-> unbans, notify |-> FALSE, audit |-> FALSE]
  ELSE IF rec.status # "active" /\ rec.status # "deleted_account"
  THEN [rec |-> RestoreStatus(rec), unbans |-> unbans, notify |-> FALSE, audit |-> FALSE]
  ELSE [rec |-> rec, unbans |-> unbans, notify |-> FALSE, audit |-> FALSE]

\* One iteration of the loop over the snapshot.
MergePlayer(rec, e, api, already, unbans, isFirst, now) ==
  IF ~rec.tracked
  THEN [rec |-> NewRecord(now), unbans |-> unbans, notify |-> FALSE, audit |-> FALSE]
  ELSE LET seen == [rec EXCEPT !.lastSeen = now] IN
       IF api.kind # "none" /\ ~already
       THEN [rec |-> MergeSanction(seen, api, now), unbans |-> unbans,
             notify |-> FALSE, audit |-> FALSE]
       ELSE IF ~already
       THEN MergeRestore(seen, e, unbans, isFirst)
       ELSE [rec |-> seen, unbans |-> unbans, notify |-> FALSE, audit |-> FALSE]

\* The reconciliation loop sends an unban notification or the restart notice.
MergeNotifies(c) ==
  \/ isFirstCheckAfterRestart[c]
  \/ \E e \in currentPlayers[c] :
       MergePlayer(data[c].players[e], e, top2000ApiSanctionInfo[c][e],
                   priorityBannedPlayers[c][e].kind # "none", data[c].currentCheckUnbans,
                   isFirstCheckAfterRestart[c], currentTime[c]).notify

\* The reconciliation loop over the snapshot, and the restart notice.
Merge(c) ==
  /\ pc[c] = "top2000"
  /\ pending[c] = {}
  /\ IF MergeNotifies(c) /\ Notify(notifierUp).threw
     THEN CatchBlock(c)
     ELSE /\ LET snap == currentPlayers[c]
                 m == [e \in Entities |->
                         MergePlayer(data[c].players[e], e, top2000ApiSanctionInfo[c][e],
                                     priorityBannedPlayers[c][e].kind # "none",
                                     data[c].currentCheckUnbans,
                                     isFirstCheckAfterRestart[c], currentTime[c])]
             IN
             /\ data' = [data EXCEPT
                           ![c].players = [e \in Entities |-> IF e \in snap THEN m[e].rec ELSE @[e]],
                           ![c].currentCheckUnbans = @ \cup UNION {m[e].unbans : e \in snap}]
             /\ unbanNotifs' = [unbanNotifs EXCEPT ![c] = CountUp(@, {e \in snap : m[e].notify})]
             /\ unbanAudit' = [unbanAudit EXCEPT ![c] = CountUp(@, {e \in snap : m[e].audit})]
             /\ restoredDuration' =
                  [restoredDuration EXCEPT ![c] =
                     [e \in Entities |->
                        IF e \in snap /\ m[e].audit THEN ActionDuration(data[c].players[e], clock)
                        ELSE @[e]]]
          /\ statusMsgs' = [statusMsgs EXCEPT ![c].ok =
                              IF isFirstCheckAfterRestart[c] THEN @ + 1 ELSE @]
          /\ pc' = [pc EXCEPT ![c] = "sweep"]
          /\ UNCHANGED <<sideVars, clock, store, fetchVars, currentPlayers, timeVars, pending, resultVars,
                         storeAtStart, failed, saves, probes, banNotifs, deletionEvents>>

\* ----------------------------------------------------------- expiry sweep
ExpireRecord(rec) ==
  [rec EXCEPT !.status = "suspension_expired", !.suspendedUntil = 0, !.suspendedAt = 0]

SuspensionDueStrict(rec, now) ==
  rec.tracked /\ rec.status = "suspended" /\ rec.suspendedUntil # 0 /\ now > rec.suspendedUntil

SuspensionDueAnyStatus(rec, now) == rec.tracked /\ now >= rec.suspendedUntil

SuspensionDue(rec, now) ==
  rec.tracked /\ rec.status = "suspended" /\ rec.suspendedUntil # 0 /\ now >= rec.suspendedUntil

ExistingTracked(d, now) ==
  {e \in Entities :
     /\ d.players[e].tracked
     /\ d.players[e].lastSeen > now - RecencyWindowHours}

\* The tracked entities whose status is suspended or banned and that were
\* seen within the recency window.
ExistingSanctioned(d, now) ==
  {e \in Entities :
     /\ d.players[e].tracked
     /\ d.players[e].status \in {"suspended", "banned"}
     /\ d.players[e].lastSeen > now - RecencyWindowHours}

\* The sweep, then the list of sanctioned entities to verify again.
Sweep(c) ==
  /\ pc[c] = "sweep"
  /\ LET swept == [e \in Entities |->
                     IF SuspensionDue(data[c].players[e], currentTime[c])
                     THEN ExpireRecord(data[c].players[e]) ELSE data[c].players[e]]
         d2 == [data[c] EXCEPT !.players = swept]
     IN
     /\ data' = [data EXCEPT ![c] = d2]
     /\ pending' = [pending EXCEPT ![c] = ExistingSanctioned(d2, currentTime[c])]
  /\ pc' = [pc EXCEPT ![c] = "existing"]
  /\ UNCHANGED <<sideVars, clock, store, fetchVars, currentPlayers, timeVars, resultVars, endVars,
                 probes, notifVars>>

\* ---------------------------------------------------- re-verification pass
Quiet(rec, unbans, result) ==
  [rec |-> rec, result |-> result, unbans |-> unbans, notify |-> FALSE, audit |-> FALSE]

\* What the callback leaves of a record it found without a sanction.
Unsanction(rec) ==
  [rec EXCEPT !.status = "active", !.suspendedUntil = 0, !.suspendedAt = 0]

\* Callback of verifyExistingSanctionedPlayers on the entity's record.
VerifyExistingCallback(rec, e, unbans, act) ==
  IF act.threw THEN Quiet(rec, unbans, NoResult)
  ELSE IF act.deleted
  THEN IF rec.status # "deleted_account"
       THEN Quiet(MarkDeleted(rec), unbans, DeletionResult)
       ELSE Quiet(rec, unbans, NoResult)
  ELSE IF act.banned
  THEN IF rec.status # "banned"
       THEN Quiet(rec, unbans, SanctionResult(act, TRUE))
       ELSE Quiet(rec, unbans, NoResult)
  ELSE IF act.suspended
  THEN IF rec.status = "suspended" /\ rec.suspendedUntil = act.suspendedUntil
       THEN Quiet(rec, unbans, NoResult)
       ELSE Quiet(rec, unbans, SanctionResult(act, TRUE))
  ELSE IF rec.status \in {"banned", "suspended"} /\ UnbanKey(e, rec.status) \notin unbans
  THEN [rec |-> Unsanction(rec), result |-> NoResult,
        unbans |-> unbans \cup {UnbanKey(e, rec.status)},
        notify |-> rec.status = "banned", audit |-> TRUE]
  ELSE Quiet(rec, unbans, NoResult)

ExistingProbe(c, e, resp) ==
  /\ pc[c] = "existing"
  /\ e \in pending[c]
  /\ LET out == VerifyExistingCallback(data[c].players[e], e, data[c].currentCheckUnbans,
                                       GetUserActivity(resp, clock)) IN
     /\ data' = [data EXCEPT ![c].players[e] = out.rec,
                             ![c].currentCheckUnbans = out.unbans]
     /\ existingSanctionedApiInfo' = [existingSanctionedApiInfo EXCEPT ![c][e] = out.result]
     /\ unbanNotifs' = [unbanNotifs EXCEPT ![c] = CountUp(@, IF out.notify THEN {e} ELSE {})]
     /\ unbanAudit' = [unbanAudit EXCEPT ![c] = CountUp(@, IF out.audit THEN {e} ELSE {})]
     /\ restoredDuration' =
          [restoredDuration EXCEPT ![c][e] =
             IF out.audit THEN ActionDuration(data[c].players[e], clock) ELSE @]
  /\ pending' = [pending EXCEPT ![c] = @ \ {e}]
  /\ probes' = [probes EXCEPT ![c] = @ \cup {<<"existing", e>>}]
  /\ UNCHANGED <<sideVars, clock, store, pc, fetchVars, currentPlayers, timeVars,
                 priorityBannedPlayers, top2000ApiSanctionInfo, endVars, banNotifs,
                 deletionEvents>>

\* -------------------------------------------------------- end of the cycle
\* lastCheck and totalChecks of a completed cycle.
StampCheck(d, now) == [d EXCEPT !.lastCheck = now, !.totalChecks = @ + 1]

\* The end of the cycle has sanction or deletion events to hand to the notifier.
FinishNotifies(c) ==
  \E e \in Entities :
    \/ IsNewBan(top2000ApiSanctionInfo[c][e]) \/ IsNewDeletionEvent(top2000ApiSanctionInfo[c][e])
    \/ IsNewBan(existingSanctionedApiInfo[c][e])
    \/ IsNewDeletionEvent(existingSanctionedApiInfo[c][e])

\* Events of both lists are notified and applied, deletions notified, the
\* file saved and the completion message sent.
Finish(c) ==
  /\ pc[c] = "existing"
  /\ pending[c] = {}
  /\ IF FinishNotifies(c) /\ Notify(notifierUp).threw
     THEN CatchBlock(c)
     ELSE /\ LET top == top2000ApiSanctionInfo[c]
                 ex == existingSanctionedApiInfo[c]
                 named == {BanKey(e, top[e]) : e \in {x \in Entities : IsNewBan(top[x])}}
                          \cup {BanKey(e, ex[e]) : e \in {x \in Entities : IsNewBan(ex[x])}}
                 deleted == {e \in Entities : IsNewDeletionEvent(top[e]) \/ IsNewDeletionEvent(ex[e])}
                 d2 == ApplyEvents(ApplyEvents(data[c], top, currentTime[c]), ex, currentTime[c])
                 d3 == StampCheck(d2, currentTime[c])
             IN
             /\ banNotifs' = [banNotifs EXCEPT ![c] = NotifyBans(@, named)]
             /\ deletionEvents' = CountUp(deletionEvents, deleted)
             /\ data' = [data EXCEPT ![c] = d3]
             /\ store' = d3
          /\ saves' = [saves EXCEPT ![c] = @ + 1]
          /\ statusMsgs' = [statusMsgs EXCEPT ![c].ok = @ + 1]
          /\ pc' = [pc EXCEPT ![c] = "done"]
          /\ UNCHANGED <<sideVars, clock, fetchVars, currentPlayers, timeVars, pending, resultVars,
                         storeAtStart, failed, probes, unbanNotifs, unbanAudit,
                         restoredDuration>>

\* ------------------------------------------------ one probe, attempt by attempt
\* What one transport attempt of makeAPIRequest can meet.
Payloads(now) ==
  [code : {"ok"}, isBanned : BOOLEAN, suspendedUntil : {0, now - 1, now, now + 1},
   retryAfter : {0}]

Failures ==
  [code : {"404", "403", "500", "invalid_json", "timeout"}, isBanned : {FALSE},
   suspendedUntil : {0}, retryAfter : {0}]
  \cup [code : {"429"}, isBanned : {FALSE}, suspendedUntil : {0}, retryAfter : RetryHints]

Min(a, b) == IF a <= b THEN a ELSE b

\* error.message.includes('Rate limited'), includes('Retry after'): the one
\* message with either text has both.
IncludesRateLimited(msg) == msg.text = "Rate limited. Retry after N seconds"
IncludesRetryAfter(msg) == msg.text = "Rate limited. Retry after N seconds"

\* parseInt(error.message.match(/\d+/)[0]): the first number in the message.
FirstNumber(msg) == msg.n

\* Seconds slept before the next attempt, after attempt number `k` failed.
WaitTime(msg, k) ==
  IF IncludesRateLimited(msg)
  THEN IF IncludesRetryAfter(msg) THEN FirstNumber(msg)
       ELSE Min(RateLimitBaseWait + k * RateLimitWaitStep, RateLimitMaxWait)
  ELSE IF MessageIncludes(msg, 404) \/ MessageIncludes(msg, 403)
  THEN NotFoundBaseWait + k * NotFoundWaitStep
  ELSE OtherBaseWait + k * OtherWaitStep

\* The loop goes round again after a failed attempt.
RetriesLeftOneMore(n) == n <= MaxRetries

RetriesLeft(n) == n < MaxRetries

\* getUserActivity calls makeAPIRequest(url).
CallMakeAPIRequest ==
  /\ reqResult.state = "idle"
  /\ reqResult' = [state |-> "pending", resp |-> NoResponse]
  /\ attempt' = 0
  /\ UNCHANGED <<cycleVars, notifierUp, paceVars, batchVars, ratings, appended, lastError, attempts, waits,
                 activity>>

\* An attempt got a 200 with a JSON body: resolve(result).
AttemptSucceeds(resp) ==
  /\ reqResult.state = "pending"
  /\ attempts' = Append(attempts, resp)
  /\ reqResult' = [state |-> "resolved", resp |-> resp]
  /\ UNCHANGED <<cycleVars, notifierUp, paceVars, batchVars, ratings, appended, attempt, lastError, waits,
                 activity>>

\* An attempt was rejected: the error is kept, and either the loop waits
\* and goes round again or it ends and the promise rejects with lastError.
AttemptFails(resp) ==
  /\ reqResult.state = "pending"
  /\ attempts' = Append(attempts, resp)
  /\ lastError' = resp
  /\ IF RetriesLeft(attempt)
     THEN /\ waits' = Append(waits, WaitTime(ErrorMessage(resp), attempt))
          /\ attempt' = attempt + 1
          /\ UNCHANGED reqResult
     ELSE /\ reqResult' = [state |-> "rejected", resp |-> resp]
          /\ UNCHANGED <<attempt, waits>>
  /\ UNCHANGED <<cycleVars, notifierUp, paceVars, batchVars, ratings, appended, activity>>

\* getUserActivity returns or throws on the settled promise.
ProbeSettles ==
  /\ reqResult.state \in {"resolved", "rejected"}
  /\ activity' = GetUserActivity(reqResult.resp, clock)
  /\ reqResult' = [reqResult EXCEPT !.state =
                     IF reqResult.state = "resolved" THEN "returned" ELSE "handled"]
  /\ UNCHANGED <<cycleVars, notifierUp, paceVars, batchVars, ratings, appended, attempt, lastError, attempts,
                 waits>>

InitRequest == CyclesAtRest(2, EmptyData) /\ SideAtRest /\ notifierUp = TRUE

NextRequest ==
  \/ CallMakeAPIRequest
  \/ \E resp \in Payloads(clock) : AttemptSucceeds(resp)
  \/ \E resp \in Failures : AttemptFails(resp)
  \/ ProbeSettles

SpecRequest == InitRequest /\ [][NextRequest]_vars

\* --------------------------------------------------- one rating history
Sample(rating, timestamp) == [rating |-> rating, timestamp |-> timestamp]

\* A history of n samples, one per hour.
History(n) == [i \in 1..n |-> Sample(1500, i)]

LastN(seq, n) == IF Len(seq) <= n THEN seq ELSE SubSeq(seq, Len(seq) - n + 1, Len(seq))

PushRatingKeepAll(seq, sample) == Append(seq, sample)

\* ratings.push(sample), then slice(-30) when there are more than 30.
PushRating(seq, sample) ==
  LET pushed == Append(seq, sample) IN
  IF Len(pushed) > MaxRatings THEN LastN(pushed, MaxRatings) ELSE pushed

\* A cycle finds the tracked entity on the leaderboard.
AppendRating(rating) ==
  /\ appended < MaxAppends
  /\ ratings' = PushRating(ratings, Sample(rating, MaxRatings + appended + 1))
  /\ appended' = appended + 1
  /\ UNCHANGED <<cycleVars, notifierUp, paceVars, requestVars, batchVars>>

\* The histories a record can hold when a cycle loads it: the one sample a
\* new record starts with, or one short of, at, the cap.
InitRatings ==
  /\ CyclesAtRest(1, EmptyData)
  /\ ratings \in {History(1), History(MaxRatings - 1), History(MaxRatings)}
  /\ appended = 0
  /\ attempt = 0
  /\ lastError = NoResponse
  /\ attempts = <<>>
  /\ waits = <<>>
  /\ reqResult = Unsettled
  /\ activity = NoActivity
  /\ PassAtRest
  /\ PaceAtRest
  /\ notifierUp = TRUE

NextRatings == \E rating \in {1500, 1501} : AppendRating(rating)

SpecRatings == InitRatings /\ [][NextRatings]_vars

\* ------------------------------------------- one probing pass, batch by batch
\* batch = list.slice(i, i + BATCH_SIZE)
BatchOf(i) == {s \in Slots : i < s /\ s <= i + BatchSize}

\* The records a pass finds for its list: missing entities are persisted
\* active; leaderboard entries may be new; sanctioned ones are banned or
\* suspended.
PassRecords(kind, now) ==
  [s \in Slots |->
     IF kind = "priority" THEN NewRecord(now - 1)
     ELSE IF kind = "top2000" THEN (IF s = 1 THEN NoRecord ELSE NewRecord(now - 1))
     ELSE IF s = 2
     THEN [NewRecord(now - 1) EXCEPT !.status = "suspended", !.suspendedUntil = now + 1,
                                     !.suspendedAt = now - 1]
     ELSE [NewRecord(now - 1) EXCEPT !.status = "banned", !.bannedAt = now - 1]]

\* The final outcomes of a probe's request, without suspension dates.
PassResponses(now) == {r \in Responses(now) : r.suspendedUntil = 0}

\* The callback of the pass on one list entry.
PassCallback(kind, rec, s, unbans, act, now) ==
  IF kind = "priority"
  THEN LET out == VerifyBannedCallback(rec, act) IN
       [rec |-> out.rec, result |-> out.result, unbans |-> unbans]
  ELSE IF kind = "top2000"
  THEN LET out == VerifyTop2000Callback(rec, act, now) IN
       [rec |-> out.rec, result |-> out.result, unbans |-> unbans]
  ELSE LET out == VerifyExistingCallback(rec, s, unbans, act) IN
       [rec |-> out.rec, result |-> out.result, unbans |-> out.unbans]

\* One of the three verify functions is called with its list.
StartPass(kind) ==
  /\ passState = "idle"
  /\ passKind' = kind
  /\ passPlayers' = PassRecords(kind, clock)
  /\ passState' = "loop"
  /\ UNCHANGED <<cycleVars, notifierUp, paceVars, ratings, appended, requestVars, batchIndex, promises, probeCount,
                 met, passResults, passUnbans, processedCount>>

\* The loop body starts: batch.map(async ...) creates the batch's promises,
\* each of which will call getUserActivity once.
LaunchBatch ==
  /\ passState = "loop"
  /\ batchIndex < ListLen
  /\ promises' = [s \in Slots |-> IF s \in BatchOf(batchIndex) THEN "pending" ELSE "none"]
  /\ probeCount' = [s \in Slots |-> IF s \in BatchOf(batchIndex) THEN probeCount[s] + 1
                                     ELSE probeCount[s]]
  /\ passState' = "awaiting"
  /\ UNCHANGED <<cycleVars, notifierUp, paceVars, ratings, appended, requestVars, passKind, batchIndex, met,
                 passResults, passPlayers, passUnbans, processedCount>>

\* The probe of one entry settles and its callback runs to its return:
\* try { ... } catch { return null }.
BatchProbe(s, resp) ==
  /\ passState = "awaiting"
  /\ promises[s] = "pending"
  /\ LET out == PassCallback(passKind, passPlayers[s], s, passUnbans,
                             GetUserActivity(resp, clock), clock) IN
     /\ passPlayers' = [passPlayers EXCEPT ![s] = out.rec]
     /\ passResults' = [passResults EXCEPT ![s] = out.result]
     /\ passUnbans' = out.unbans
  /\ met' = [met EXCEPT ![s] = resp]
  /\ promises' = [promises EXCEPT ![s] = "fulfilled"]
  /\ processedCount' = processedCount + 1
  /\ UNCHANGED <<cycleVars, notifierUp, paceVars, ratings, appended, requestVars, passKind, passState, batchIndex,
                 probeCount>>

\* The loop's step: i += BATCH_SIZE.
NextBatch(i) == i + BatchSize

AnySettled(i) == \E s \in BatchOf(i) : promises[s] = "fulfilled"

\* await Promise.allSettled(promises)
AllSettled(i) == \A s \in BatchOf(i) : promises[s] = "fulfilled"

\* Promise.allSettled(promises) resolves: the results are collected, the
\* inter-batch delay is slept when entries remain, and the loop steps; after
\* the last batch the function returns its list.
BatchSettled ==
  /\ passState = "awaiting"
  /\ AllSettled(batchIndex)
  /\ batchIndex' = NextBatch(batchIndex)
  /\ passState' = IF NextBatch(batchIndex) < ListLen THEN "loop" ELSE "returned"
  /\ UNCHANGED <<cycleVars, notifierUp, paceVars, ratings, appended, requestVars, passKind, promises, probeCount, met,
                 passResults, passPlayers, passUnbans, processedCount>>

InitBatch == CyclesAtRest(2, EmptyData) /\ SideAtRest /\ notifierUp = TRUE

NextBatchLoop ==
  \/ \E kind \in Passes : StartPass(kind)
  \/ LaunchBatch
  \/ \E s \in Slots, resp \in PassResponses(clock) : BatchProbe(s, resp)
  \/ BatchSettled

SpecBatch == InitBatch /\ [][NextBatchLoop]_vars

\* ------------------------------------------ the pace of a probing pass
\* The list of a paced pass holds PaceBatches full batches of PaceBatchSize
\* entries.
PaceBatches == 6
PaceBatchSize == 3

\* INTER_BATCH_DELAY of the three passes, in milliseconds.
TopBatchDelay == 150
PriorityBatchDelay == 120
ExistingBatchDelay == 200

VeryHighRateLimit == 12
HighRateLimit == 8
ModerateRateLimit == 4
HighErrorRate == 5
PriorityHighRateLimit == 5
PriorityRateLimit == 2
ExistingRateLimit == 2
TopHalvingPeriod == 5
PriorityHalvingPeriod == 3

TopDelayAtLeast(hits, errors) ==
  IF hits >= VeryHighRateLimit THEN TopBatchDelay * 5
  ELSE IF hits >= HighRateLimit THEN TopBatchDelay * 3
  ELSE IF hits >= ModerateRateLimit THEN TopBatchDelay * 2
  ELSE IF errors >= HighErrorRate THEN TopBatchDelay * 2
  ELSE TopBatchDelay

\* verifyAllTop2000Players: the delay slept between two batches.
TopDelay(hits, errors) ==
  IF hits > VeryHighRateLimit THEN TopBatchDelay * 5
  ELSE IF hits > HighRateLimit THEN TopBatchDelay * 3
  ELSE IF hits > ModerateRateLimit THEN TopBatchDelay * 2
  ELSE IF errors > HighErrorRate THEN TopBatchDelay * 2
  ELSE TopBatchDelay

\* verifyBannedPlayers
PriorityDelay(hits) ==
  IF hits > PriorityHighRateLimit THEN PriorityBatchDelay * 3
  ELSE IF hits > PriorityRateLimit THEN PriorityBatchDelay * 2
  ELSE PriorityBatchDelay

\* verifyExistingSanctionedPlayers
ExistingDelay(hits) ==
  IF hits > ExistingRateLimit THEN ExistingBatchDelay * 2 ELSE ExistingBatchDelay

InterBatchDelay(kind, hits, errors) ==
  IF kind = "top2000" THEN TopDelay(hits, errors)
  ELSE IF kind = "priority" THEN PriorityDelay(hits)
  ELSE ExistingDelay(hits)

\* if (batchNum % 5 === 0), if (batchNum % 3 === 0); the re-verification
\* pass has no such statement.
Halves(kind, n) ==
  \/ kind = "top2000" /\ n % TopHalvingPeriod = 0
  \/ kind = "priority" /\ n % PriorityHalvingPeriod = 0

\* What the callback of a probe sees: a value from getUserActivity, an error
\* whose message says 'Rate limited', or another error.
Outcomes == {"ok", "rate_limited", "error"}

\* A pass starts on its list: the counters are declared zero.
StartPacedPass(kind) ==
  /\ paceKind = "none"
  /\ paceKind' = kind
  /\ batchNum' = 1
  /\ UNCHANGED <<cycleVars, notifierUp, ratings, appended, requestVars, batchVars, settled,
                 rateLimitHits, consecutiveErrors, delay, sinceHalved>>

\* One probe of the batch settles. Only verifyAllTop2000Players keeps
\* consecutiveErrors.
PacedProbe(outcome) ==
  /\ paceKind \in Passes
  /\ settled < PaceBatchSize
  /\ settled' = settled + 1
  /\ rateLimitHits' = IF outcome = "rate_limited" THEN rateLimitHits + 1 ELSE rateLimitHits
  /\ consecutiveErrors' =
       IF paceKind # "top2000" THEN consecutiveErrors
       ELSE IF outcome = "ok" THEN 0
       ELSE consecutiveErrors + 1
  /\ UNCHANGED <<cycleVars, notifierUp, ratings, appended, requestVars, batchVars, paceKind,
                 batchNum, delay, sinceHalved>>

Halved(n) == n \div 2

\* Promise.allSettled has returned: the sleep and the halving when a batch
\* follows, the return after the last batch.
EndBatch ==
  /\ paceKind \in Passes
  /\ settled = PaceBatchSize
  /\ IF batchNum < PaceBatches
     THEN /\ delay' = InterBatchDelay(paceKind, rateLimitHits, consecutiveErrors)
          /\ rateLimitHits' =
               IF Halves(paceKind, batchNum) THEN Halved(rateLimitHits) ELSE rateLimitHits
          /\ consecutiveErrors' =
               IF Halves(paceKind, batchNum) THEN Halved(consecutiveErrors)
               ELSE consecutiveErrors
          /\ sinceHalved' = IF Halves(paceKind, batchNum) THEN 0 ELSE sinceHalved + 1
          /\ batchNum' = batchNum + 1
          /\ settled' = 0
          /\ UNCHANGED paceKind
     ELSE /\ paceKind' = "returned"
          /\ UNCHANGED <<batchNum, settled, rateLimitHits, consecutiveErrors, delay,
                         sinceHalved>>
  /\ UNCHANGED <<cycleVars, notifierUp, ratings, appended, requestVars, batchVars>>

InitPace == CyclesAtRest(2, EmptyData) /\ SideAtRest /\ notifierUp = TRUE

NextPace ==
  \/ \E kind \in Passes : StartPacedPass(kind)
  \/ \E outcome \in Outcomes : PacedProbe(outcome)
  \/ EndBatch

SpecPace == InitPace /\ [][NextPace]_vars

\* ---------------------------------------------------------- specifications
Step(c) ==
  \/ FetchPageOk(c)
  \/ FetchPageEmpty(c)
  \/ FetchPageRateLimited(c)
  \/ FetchPageFailed(c)
  \/ Prepare(c)
  \/ PriorityDone(c)
  \/ Merge(c)
  \/ Sweep(c)
  \/ Finish(c)

\* Triggers come one at a time; the server answers a probe in any way.
Next ==
  \E c \in Cycles :
    \/ TriggerWhenIdle(c)
    \/ Step(c)
    \/ \E e \in Entities, resp \in Responses(clock) : PriorityProbe(c, e, resp)
    \/ \E e \in Entities, resp \in Responses(clock) : TopProbe(c, e, resp)
    \/ \E e \in Entities, resp \in Responses(clock) : ExistingProbe(c, e, resp)

Spec == Init /\ [][Next]_vars

\* Triggers come at any moment; the server gives plain answers.
NextReentrant ==
  \E c \in Cycles :
    \/ TriggerAnytime(c)
    \/ Step(c)
    \/ \E e \in Entities, resp \in PlainResponses : PriorityProbe(c, e, resp)
    \/ \E e \in Entities, resp \in PlainResponses : TopProbe(c, e, resp)
    \/ \E e \in Entities, resp \in PlainResponses : ExistingProbe(c, e, resp)

SpecReentrant == Init /\ [][NextReentrant]_vars

\* Later in the life of the file: entity 1 was banned in the cycle of hour
\* BannedHour and restored since (bannedAt is never deleted), or never
\* banned; the cycle of hour LastCheckHour found it suspended for two more
\* hours, and entity 2 on the leaderboard without sanction.
AgedRecord(bannedAt) ==
  [tracked |-> TRUE, status |-> "suspended", suspendedUntil |-> LastCheckHour + 2,
   lastSeen |-> LastCheckHour, bannedAt |-> bannedAt, suspendedAt |-> LastCheckHour]

AgedStore(bannedAt) ==
  [players |-> [e \in Entities |->
                  IF e = 1 THEN AgedRecord(bannedAt)
                  ELSE IF e = 2 THEN NewRecord(LastCheckHour)
                  ELSE NoRecord],
   lastCheck |-> LastCheckHour, totalChecks |-> 2,
   currentCheckBans |-> {<<1, "suspended">>}, currentCheckUnbans |-> {}]

\* The same file when the suspension found at hour LastCheckHour ends an
\* hour later.
DueStore == [AgedStore(0) EXCEPT !.players[1].suspendedUntil = LastCheckHour + 1]

AgedStores == {AgedStore(BannedHour), AgedStore(0), DueStore}

\* Hours from the last cycle to the next trigger: the next hour, or later
\* the same day, more than six hours on.
AgedGaps == {1, 8}

InitAged ==
  /\ \E file \in AgedStores, gap \in AgedGaps : CyclesAtRest(LastCheckHour + gap, file)
  /\ SideAtRest
  /\ notifierUp \in BOOLEAN

\* One more cycle, an hour after the last one.
NextAged ==
  \E c \in {1} :
    \/ TriggerWhenIdle(c)
    \/ Step(c)
    \/ \E e \in Entities, resp \in Responses(clock) : PriorityProbe(c, e, resp)
    \/ \E e \in Entities, resp \in Responses(clock) : TopProbe(c, e, resp)
    \/ \E e \in Entities, resp \in Responses(clock) : ExistingProbe(c, e, resp)

SpecAged == InitAged /\ [][NextAged]_vars

\* The file when the cycle of hour LastCheckHour found the suspension of
\* entity 1, last seen at hour BannedHour, over and the account of entity 2
\* deleted.
SettledStore ==
  [players |-> [e \in Entities |->
                  IF e = 1 THEN [NewRecord(BannedHour) EXCEPT !.status = "suspension_expired"]
                  ELSE IF e = 2 THEN [NewRecord(LastCheckHour) EXCEPT !.status = "deleted_account"]
                  ELSE NoRecord],
   lastCheck |-> LastCheckHour, totalChecks |-> 2,
   currentCheckBans |-> {}, currentCheckUnbans |-> {}]

\* Files with records at rest; the empty one is that of a bot that never
\* completed a cycle.
SettledStores == {AgedStore(0), SettledStore, EmptyData}

\* Hours from the last cycle to the next trigger: the next hour, exactly
\* RestartGapHours on, or later the same day, more than six hours on.
SettledGaps == {1, RestartGapHours, 8}

InitSettled ==
  /\ \E file \in SettledStores, gap \in SettledGaps : CyclesAtRest(LastCheckHour + gap, file)
  /\ SideAtRest
  /\ notifierUp = TRUE

\* One cycle on such a file.
SpecSettled == InitSettled /\ [][NextAged]_vars

\* The same cycle with a leaderboard that may answer 429 without end. Every
\* request gets its response or its timeout and every timer fires: the
\* cycle keeps taking steps as long as it has one to take.
NextLive ==
  \/ NextAged
  \/ \E c \in {1} : FetchPageRateLimitedAgain(c) \/ CooldownOver(c)

SpecLive == InitAged /\ [][NextLive]_vars /\ WF_vars(NextLive)


\* ------------------------------------------------------------------ claims
Running(c) == pc[c] \notin {"idle", "done", "spent"}

\* The records of the file and of every copy a running cycle works on.
TrackedRecords ==
  {store.players[e] : e \in {x \in Entities : store.players[x].tracked}}
  \cup UNION {{data[c].players[e] : e \in {x \in Entities : data[c].players[x].tracked}}
              : c \in {b \in Cycles : pc[b] # "idle"}}

\* C1: within one cycle, no <<entity, event kind>> pair is named in more
\* than one notification handed to the notifier, whatever the probes of the
\* three passes answered.
C1_OneNotificationPerEvent ==
  \A c \in Cycles :
    /\ \A k \in Entities \X SanctionKinds : banNotifs[c][k] <= 1
    /\ \A e \in Entities : unbanNotifs[c][e] <= 1

\* C2: a persisted status of deleted_account is never changed by any later
\* step of any cycle.
C2_DeletedIsTerminal ==
  [][\A e \in Entities :
       (store.players[e].tracked /\ store.players[e].status = "deleted_account")
         => store'.players[e].status = "deleted_account"]_vars

\* C3: the first cycle after a restart emits no unban notification and no
\* unban/unsuspend audit record, in the full-population pass or in the
\* re-verification pass.
C3_RestartGuardSilent ==
  \A c \in Cycles :
    isFirstCheckAfterRestart[c] =>
      \A e \in Entities : unbanNotifs[c][e] = 0 /\ unbanAudit[c][e] = 0

\* C4: at most one cycle is in flight at any time.
C4_OneCycleInFlight == Cardinality(InFlight) <= 1

\* C5: when a cycle ends in failure, the file holds what it held when the
\* cycle loaded it, and an error status message was sent.
C5_FailedCycleLeavesStore ==
  [][\A c \in Cycles :
       (Running(c) /\ pc'[c] = "done" /\ failed'[c])
         => (store' = storeAtStart[c] /\ statusMsgs'[c].err >= 1)]_vars

\* C6: a fetch that returned zero entities aborts the cycle: no probe was
\* issued, savePlayerData was not called and the file is untouched (lastCheck
\* and totalChecks included), and exactly one status message, an error, was
\* sent.
C6_EmptySnapshotAborts ==
  [][\A c \in Cycles :
       (pc[c] = "loaded" /\ Len(allPlayers[c]) = 0 /\ pc'[c] # "loaded")
         => /\ pc'[c] = "done"
            /\ failed'[c]
            /\ probes'[c] = {}
            /\ saves'[c] = 0
            /\ store' = store
            /\ store' = storeAtStart[c]
            /\ statusMsgs'[c] = [err |-> 1, ok |-> 0]]_vars

\* A cycle that aborted on an empty snapshot.
C6_Witness ==
  \E c \in Cycles :
    /\ pc[c] = "done"
    /\ failed[c]
    /\ probes[c] = {}
    /\ saves[c] = 0
    /\ statusMsgs[c] = [err |-> 1, ok |-> 0]

\* C7: a snapshot cut short by a page failure after at least one page is
\* treated as a failed cycle: the cycle aborts as for an empty snapshot.
C7_PartialSnapshotAborts ==
  [][\A c \in Cycles :
       (pc[c] = "loaded" /\ partial[c] /\ Len(allPlayers[c]) > 0 /\ pc'[c] # "loaded")
         => (pc'[c] = "done" /\ failed'[c])]_vars

\* C8: every tracked record, in the file and in every cycle's copy, has a
\* status that is one of active, banned, suspended, suspension_expired,
\* deleted_account.
C8_StatusIsOneOfFive == \A rec \in TrackedRecords : rec.status \in Statuses

\* The file holds an expired suspension and a deleted account.
C8_Witness ==
  \E e1, e2 \in Entities :
    /\ store.players[e1].tracked /\ store.players[e1].status = "suspension_expired"
    /\ store.players[e2].tracked /\ store.players[e2].status = "deleted_account"

\* C9: over all cycles, at most one deletion event is emitted per entity.
C9_OneDeletionEventEver == \A e \in Entities : deletionEvents[e] <= 1

\* C10: in the file, a record has a suspendedUntil exactly when its status
\* is suspended.
C10_SuspendedUntilIffSuspended ==
  \A e \in Entities :
    store.players[e].tracked =>
      (store.players[e].suspendedUntil # 0 <=> store.players[e].status = "suspended")

\* C13: a rating history never has more than 30 samples; a sample pushed
\* to a history of 30 evicts the oldest one and keeps the others in order.
C13_RatingsBoundedFifo ==
  [][LET n == Len(ratings) IN
     /\ Len(ratings') = (IF n < MaxRatings THEN n + 1 ELSE MaxRatings)
     /\ Len(ratings) <= MaxRatings
     /\ IF n < MaxRatings
        THEN \A i \in 1..n : ratings'[i] = ratings[i]
        ELSE \A i \in 1..(n - 1) : ratings'[i] = ratings[i + 1]
     /\ ratings'[Len(ratings')].timestamp = MaxRatings + appended + 1]_vars

\* A full history that has lost its oldest samples.
C13_Witness ==
  /\ Len(ratings) = MaxRatings
  /\ appended >= 2
  /\ ratings[1].timestamp > 1
  /\ ratings[MaxRatings].timestamp = MaxRatings + appended

\* C18: one call of makeAPIRequest makes at most maxRetries + 1 attempts;
\* it resolves with the payload of the first successful attempt and makes no
\* attempt after it; when every attempt failed it rejects with the error of
\* the last one.
C18_AttemptsBounded ==
  LET n == Len(attempts) IN
  /\ n <= MaxRetries + 1
  /\ \A i \in 1..(n - 1) : attempts[i].code # "ok"
  /\ reqResult.state = "pending" => \A i \in 1..n : attempts[i].code # "ok"
  /\ reqResult.state \in {"resolved", "returned"} =>
       n >= 1 /\ attempts[n].code = "ok" /\ reqResult.resp = attempts[n]
  /\ reqResult.state \in {"rejected", "handled"} =>
       /\ n = MaxRetries + 1
       /\ attempts[n].code # "ok"
       /\ reqResult.resp = attempts[n]
       /\ lastError = attempts[n]

\* A call that resolved on its last permitted attempt.
C18_Witness ==
  /\ reqResult.state = "resolved"
  /\ Len(attempts) = MaxRetries + 1
  /\ lastError = attempts[MaxRetries]

\* C19: getUserActivity reports {accessible: false, deleted: true} exactly
\* when the final failure of the request is an HTTP 404 or 403; after any
\* other final failure it throws and the entity is not reported deleted.
C19_DeletedOnlyOn404Or403 ==
  /\ reqResult.state = "handled" =>
       IF reqResult.resp.code \in {"404", "403"}
       THEN activity.deleted /\ ~activity.accessible /\ ~activity.threw
       ELSE activity.threw /\ ~activity.deleted
  /\ reqResult.state = "returned" => ~activity.deleted /\ ~activity.threw

\* C20: a probe result is suspended exactly when the payload carries a
\* suspension timestamp strictly later than the probe time, and banned
\* exactly when the payload carries the ban flag.
C20_SuspendedIffStrictlyFuture ==
  reqResult.state = "returned" =>
    /\ activity.suspended <=>
         (reqResult.resp.suspendedUntil # 0 /\ reqResult.resp.suspendedUntil > clock)
    /\ activity.banned <=> reqResult.resp.isBanned
    /\ activity.accessible

\* A payload whose suspension ends at the probe time: not suspended.
C20_Witness ==
  /\ reqResult.state = "returned"
  /\ reqResult.resp.suspendedUntil = clock
  /\ ~activity.suspended

\* C11: every record whose status is suspended, in the file and in every
\* cycle's copy, has a suspendedUntil.
C11_SuspendedHasEndDate ==
  \A rec \in TrackedRecords : rec.status = "suspended" => rec.suspendedUntil # 0

\* The file holds a suspension with its end date, as the probe reported it.
C11_Witness ==
  \E e \in Entities :
    /\ store.players[e].tracked
    /\ store.players[e].status = "suspended"
    /\ store.players[e].suspendedUntil > store.lastCheck

\* C12: the expiry sweep of a cycle moves every record that is suspended
\* with suspendedUntil <= cycle time to suspension_expired, leaves every
\* other record as it was, and issues no probe and writes no file.
C12_SweepExpiresDueOnly ==
  [][\A c \in Cycles :
       (pc[c] = "sweep" /\ pc'[c] = "existing") =>
         /\ \A e \in Entities :
              LET rec == data[c].players[e] IN
              IF /\ rec.tracked
                 /\ rec.status = "suspended"
                 /\ rec.suspendedUntil # 0
                 /\ rec.suspendedUntil <= currentTime[c]
              THEN data'[c].players[e].status = "suspension_expired"
              ELSE data'[c].players[e] = rec
         /\ probes' = probes
         /\ store' = store]_vars

\* A sweep has just expired a suspension the cycle loaded from the file.
C12_Witness ==
  \E c \in Cycles, e \in Entities :
    /\ pc[c] = "existing"
    /\ e \notin currentPlayers[c]
    /\ storeAtStart[c].players[e].status = "suspended"
    /\ storeAtStart[c].players[e].suspendedUntil <= currentTime[c]
    /\ data[c].players[e].status = "suspension_expired"

\* What the cycle loaded for the entity, and what its passes returned for it.
Persisted(c, e) == storeAtStart[c].players[e]

ResultsOf(c, e) ==
  {priorityBannedPlayers[c][e], top2000ApiSanctionInfo[c][e], existingSanctionedApiInfo[c][e]}

Completed(c) == pc[c] = "done" /\ ~failed[c]

\* The suspension end dates the cycle's probes of the entity carried.
EndDatesOf(c, e) == {r.suspendedUntil : r \in ResultsOf(c, e)}

\* A probe of the cycle reported the entity banned.
ReportedBanned(c, e) ==
  \E r \in ResultsOf(c, e) : r.kind = "sanction" /\ r.confirmedBanned

\* A probe of the cycle reported the entity suspended until u.
ReportedSuspended(c, e, u) ==
  \E r \in ResultsOf(c, e) :
    r.kind = "sanction" /\ ~r.confirmedBanned /\ r.suspended /\ r.suspendedUntil = u

\* Another probe of the same cycle reported the entity deleted or without
\* sanction (the latter leaves an audit line).
ReportedGoneOrFree(c, e) ==
  \/ unbanAudit[c][e] > 0
  \/ \E r \in ResultsOf(c, e) : r.kind = "deleted"

C15_RestoredDuration ==
  \A c \in Cycles, e \in Entities :
    ( /\ pc[c] # "idle"
      /\ Persisted(c, e).tracked
      /\ Persisted(c, e).status = "suspended"
      /\ ~isFirstCheckAfterRestart[c]
      /\ \A r \in ResultsOf(c, e) : r.kind = "none"
      /\ unbanAudit[c][e] > 0 )
    => /\ unbanAudit[c][e] = 1
       /\ unbanNotifs[c][e] = 0
       /\ data[c].players[e].status = "active"
       /\ restoredDuration[c][e] =
            (currentTime[c] - Persisted(c, e).suspendedAt) \div HoursPerDay

\* C21: while a snapshot is being fetched, it holds a page (of one entry at
\* least, PageSize at most) for every offset below the one requested next,
\* in the order of the offsets; a page answered "Rate limited" adds nothing
\* and is requested again at the same offset; a page with entries is
\* appended once, at the end, and the next offset follows.
C21_PagesInOrderNoGap ==
  [][\A c \in Cycles :
       pc[c] = "fetch" =>
         /\ offset[c] <= Len(allPlayers[c])
         /\ Len(allPlayers[c]) <= offset[c] * PageSize
         /\ \/ /\ allPlayers'[c] = allPlayers[c]
               /\ offset'[c] = offset[c]
               /\ pc'[c] = "fetch"
            \/ /\ allPlayers'[c] = allPlayers[c]
               /\ pc'[c] = "loaded"
            \/ /\ Len(allPlayers'[c]) > Len(allPlayers[c])
               /\ Len(allPlayers'[c]) <= Len(allPlayers[c]) + PageSize
               /\ SubSeq(allPlayers'[c], 1, Len(allPlayers[c])) = allPlayers[c]
               /\ \/ pc'[c] = "fetch" /\ offset'[c] = offset[c] + 1
                  \/ pc'[c] = "loaded" /\ offset[c] + 1 = MaxPages]_vars

\* A page was answered "Rate limited" and the second offset is to be
\* requested; the snapshot holds the first page only.
C21_Witness ==
  \E c \in Cycles :
    /\ pc[c] = "fetch"
    /\ offset[c] = 1
    /\ rateLimited[c] = 1
    /\ Len(allPlayers[c]) >= 1

\* The probe of the entry ended on a failure other than HTTP 404 or 403.
ProbeFailed(s) == met[s].code \notin {"none", "ok", "404", "403"}

\* C22: in a probing pass, a probe that failed with an error leaves no
\* result for its entry; every entry is probed at most once while the pass
\* runs, and when the pass has returned every entry was probed exactly once
\* and its probe has settled.
C22_ProbeFailureYieldsNoResult ==
  /\ \A s \in Slots : ProbeFailed(s) => passResults[s] = NoResult
  /\ \A s \in Slots : probeCount[s] <= 1
  /\ passState = "returned" =>
       /\ \A s \in Slots : probeCount[s] = 1 /\ met[s].code # "none"
       /\ processedCount = ListLen

\* The steps of a cycle that probe or sweep, by where checkForBannedPlayers
\* stands, and the place of each in the order priority pass, full-population
\* pass, re-verification pass, expiry sweep.
StepRank(at) ==
  IF at = "priority" THEN 1
  ELSE IF at = "top2000" THEN 2
  ELSE IF at = "existing" THEN 3
  ELSE IF at = "sweep" THEN 4
  ELSE 0

\* C23: a cycle goes through its steps in the order priority pass,
\* full-population pass, re-verification pass, expiry sweep: it never moves
\* from a step to one that comes earlier in that order, so the sweep is
\* applied after the re-verification pass.
C23_SweepAfterReverification ==
  [][\A c \in Cycles :
       (StepRank(pc[c]) > 0 /\ StepRank(pc'[c]) > 0) => StepRank(pc[c]) <= StepRank(pc'[c])]_vars

\* C24: no record changes in a step after which a probe of the batch is
\* still in flight: records change only once every probe of the batch has
\* settled.
C24_NoWriteWhileProbing ==
  [][(\E s \in Slots : promises'[s] = "pending") => passPlayers' = passPlayers]_vars

\* C25: whether the notifier works or every send fails, a cycle ends on the
\* failure path only for an empty snapshot, before any probe; a cycle that
\* went through its passes saves the file it worked on, stamped with the
\* cycle time, and counts the same notifier calls.
C25_NotifierFailureHarmless ==
  \A c \in Cycles :
    /\ failed[c] => probes[c] = {} /\ saves[c] = 0
    /\ (pc[c] = "done" /\ probes[c] # {}) =>
         /\ ~failed[c]
         /\ saves[c] >= 1
         /\ store = data[c]
         /\ store.lastCheck = currentTime[c]
         /\ statusMsgs[c].err = 0

\* The notifier is down; a cycle handed it a new sanction and a restored
\* ban, and completed with the sanction saved.
C25_Witness ==
  \E c \in Cycles, e1, e2 \in Entities :
    /\ ~notifierUp
    /\ Completed(c)
    /\ banNotifs[c][<<e1, "banned">>] = 1
    /\ store.players[e1].status = "banned"
    /\ unbanAudit[c][e2] = 1
    /\ store.lastCheck = currentTime[c]

\* C26: a record of a cycle's copy of the file becomes suspension_expired
\* only from status suspended and only in the step that applies the expiry
\* sweep; a save that writes suspension_expired for an entity replaces a
\* persisted status of suspended or suspension_expired.
C26_ExpiredOnlyFromSuspended ==
  [][\A c \in Cycles, e \in Entities :
       /\ ( /\ pc[c] # "idle"
            /\ data'[c].players[e].status = "suspension_expired"
            /\ data[c].players[e].status # "suspension_expired" )
          => /\ data[c].players[e].status = "suspended"
             /\ pc[c] = "sweep"
             /\ pc'[c] = "existing"
       /\ ( /\ store'.players[e].status = "suspension_expired"
            /\ store.players[e].status # "suspension_expired" )
          => store.players[e].status = "suspended"]_vars

\* The file holds an expired suspension that the cycle loaded as suspended.
C26_Witness ==
  \E c \in Cycles, e \in Entities :
    /\ Completed(c)
    /\ Persisted(c, e).status = "suspended"
    /\ store.players[e].status = "suspension_expired"

\* C27: once a cycle is past its priority pass, every entity it loaded as
\* active, absent from the snapshot and last seen at least 1 and less than
\* 24 hours before the cycle time has been probed in the priority pass.
C27_RecentlyMissingProbedFirst ==
  \A c \in Cycles, e \in Entities :
    ( /\ pc[c] \in {"top2000", "sweep", "existing", "done"}
      /\ ~failed[c]
      /\ Persisted(c, e).tracked
      /\ Persisted(c, e).status = "active"
      /\ e \notin currentPlayers[c]
      /\ currentTime[c] - Persisted(c, e).lastSeen >= MinHoursMissing
      /\ currentTime[c] - Persisted(c, e).lastSeen < MaxHoursMissing )
    => <<"priority", e>> \in probes[c]

\* C28: in a completed cycle, every entity that was loaded as banned or
\* suspended and last seen less than 7 days before the cycle time was probed
\* in at least one pass.
C28_SanctionedAreProbed ==
  \A c \in Cycles, e \in Entities :
    ( /\ Completed(c)
      /\ Persisted(c, e).tracked
      /\ Persisted(c, e).status \in SanctionKinds
      /\ currentTime[c] - Persisted(c, e).lastSeen < RecencyWindowHours )
    => \E pass \in Passes : <<pass, e>> \in probes[c]

\* C29: both dedup key sets of a cycle are empty while its first pass runs,
\* whatever the file it loaded held; every key found in them later in the
\* cycle was set for an event of this cycle.
C29_DedupKeysStartEmpty ==
  \A c \in Cycles :
    LET d == data[c]
        firstPass == \/ pc[c] = "priority"
                     \/ pc[c] = "top2000" /\ \A e \in Entities : <<"priority", e>> \notin probes[c]
    IN
    /\ firstPass => d.currentCheckBans = {} /\ d.currentCheckUnbans = {}
    /\ pc[c] \in {"priority", "top2000", "sweep", "existing"} =>
         /\ \A k \in d.currentCheckBans :
              \E r \in ResultsOf(c, k[1]) : IsNewBan(r) /\ BanKey(k[1], r) = k
         /\ \A k \in d.currentCheckUnbans : unbanAudit[c][k[1]] > 0

\* A first pass is running on a file that came with a key of the cycle
\* before.
C29_Witness ==
  \E c \in Cycles :
    /\ pc[c] \in {"priority", "top2000"}
    /\ pending[c] # {}
    /\ probes[c] = {}
    /\ storeAtStart[c].currentCheckBans # {}
    /\ data[c].currentCheckBans = {}

\* C30: the wait slept after failed attempt k (k = 0, 1, 2) that met a 429
\* is min(15 + 5 * k, 45) seconds when the answer carried no retry-after
\* header, and the header's value when it carried one.
C30_RateLimitBackoff ==
  \A i \in 1..Len(waits) :
    attempts[i].code = "429" =>
      waits[i] = (IF attempts[i].retryAfter = 0
                  THEN Min(RateLimitBaseWait + (i - 1) * RateLimitWaitStep, RateLimitMaxWait)
                  ELSE attempts[i].retryAfter)

\* C31: in the full-population pass the delay slept between two batches is
\* five times the base delay when the rate-limit hit counter is above 12,
\* three times when it is above 8, twice when it is above 4, twice when it
\* is at most 4 and the consecutive-error counter is above 5, and the base
\* delay otherwise; nothing is slept after the last batch.
C31_TopDelayThresholds ==
  [][paceKind = "top2000" =>
       /\ batchNum' = batchNum + 1 =>
            delay' = IF rateLimitHits > 12 THEN TopBatchDelay * 5
                     ELSE IF rateLimitHits > 8 THEN TopBatchDelay * 3
                     ELSE IF rateLimitHits > 4 THEN TopBatchDelay * 2
                     ELSE IF consecutiveErrors > 5 THEN TopBatchDelay * 2
                     ELSE TopBatchDelay
       /\ paceKind' = "returned" => delay' = delay /\ sinceHalved' = sinceHalved]_vars

\* The pass has returned; before its last batch it slept five times the
\* base delay.
C31_Witness ==
  /\ paceKind = "returned"
  /\ delay = TopBatchDelay * 5

\* C32: in each of the three probing passes the rate-limit hit counter is
\* halved every 3 to 5 batches: a pass never takes five inter-batch sleeps
\* in a row without a halving.
C32_HitsHalvedPeriodically == sinceHalved < 5

RECURSIVE ProbesStarted(_)
ProbesStarted(n) == IF n = 0 THEN 0 ELSE probeCount[n] + ProbesStarted(n - 1)

\* Probes of the pass that have started and not settled.
ProbesInFlight == ProbesStarted(ListLen) - processedCount

\* C33: within a probing pass batches run one after another: no probe of
\* the next batch starts before every probe of the current one has settled,
\* so at most BATCH_SIZE probes of the pass are in flight.
C33_BatchesRunInTurn ==
  /\ ProbesInFlight <= BatchSize
  /\ passState \in {"loop", "returned"} => ProbesInFlight = 0
  /\ \A s \in Slots : promises[s] = "pending" => s \in BatchOf(batchIndex)
  /\ \A s \in Slots : s <= batchIndex => met[s] # NoResponse

\* The second batch is in flight after the whole first batch has settled.
C33_Witness ==
  /\ passState = "awaiting"
  /\ batchIndex = BatchSize
  /\ processedCount = BatchSize
  /\ ProbesInFlight >= 1

\* C34: every started cycle eventually ends, with its completion or its
\* failure status message, when every request gets a response or a timeout,
\* also when the leaderboard answers every request with 429.
C34_CycleEnds ==
  \A c \in Cycles : pc[c] = "fetch" ~> (pc[c] = "done" /\ statusMsgs[c].ok + statusMsgs[c].err = 1)

\* The sanction event the closing notification of the cycle names last for
\* the entity: the events of the full-population pass come first in its
\* list, those of the re-verification pass after them.
LastNotified(c, e) ==
  IF IsNewBan(existingSanctionedApiInfo[c][e]) THEN existingSanctionedApiInfo[c][e]
  ELSE top2000ApiSanctionInfo[c][e]

\* C35: at the end of a successful cycle, for every entity named in a
\* sanction notification of the cycle, the persisted status and
\* suspendedUntil are the kind and end date of the sanction event notified
\* last for it: a dedup key that is already set leaves no notified event
\* unapplied.
C35_NotifiedEventsApplied ==
  \A c \in Cycles, e \in Entities :
    Completed(c) /\ IsNewBan(LastNotified(c, e)) =>
      /\ store.players[e].status = BanKind(LastNotified(c, e))
      /\ BanKind(LastNotified(c, e)) = "suspended" =>
           store.players[e].suspendedUntil = LastNotified(c, e).suspendedUntil

\* C36: whenever a cycle changes an entity's status to banned, in whichever
\* pass, its bannedAt after the cycle is that cycle's time, also when the
\* entity was banned and restored in earlier cycles; likewise suspendedAt
\* for a change to suspended.
C36_SanctionStartStamped ==
  \A c \in Cycles, e \in Entities :
    Completed(c) =>
      /\ Persisted(c, e).status # "banned" /\ store.players[e].status = "banned" =>
           store.players[e].bannedAt = currentTime[c]
      /\ Persisted(c, e).status # "suspended" /\ store.players[e].status = "suspended" =>
           store.players[e].suspendedAt = currentTime[c]

\* C37: for a cycle that loads the file after the earlier ones have ended,
\* the restart guard is active exactly when the persisted
\* lastCheck is absent or more than 3 hours older than the cycle time; a
\* cycle that fails leaves lastCheck as it was and a successful one sets it
\* to its cycle time, so the guard is inactive exactly when a successful
\* cycle was completed within the 3 hours before.
C37_RestartGuard ==
  \A c \in Cycles :
    /\ currentTime[c] > 0 =>
         (isFirstCheckAfterRestart[c] <=>
            \/ storeAtStart[c].lastCheck = 0
            \/ currentTime[c] - storeAtStart[c].lastCheck > 3)
    /\ pc[c] = "done" /\ failed[c] => store.lastCheck = storeAtStart[c].lastCheck
    /\ Completed(c) => store.lastCheck = currentTime[c]

\* A cycle runs without the guard exactly 3 hours after the last successful
\* one.
C37_Witness ==
  \E c \in Cycles :
    /\ Completed(c)
    /\ ~isFirstCheckAfterRestart[c]
    /\ currentTime[c] = storeAtStart[c].lastCheck + 3

\* The cycles that completed successfully, while the history of all the
\* cycles triggered so far is still at hand.
Successful == {c \in Cycles : Completed(c)}

\* C38: after any sequence of triggers, in any interleaving, the persisted
\* totalChecks is the number of cycles that completed successfully and
\* lastCheck is the cycle time of the successful cycle that started last; a
\* cycle aborted for an empty snapshot changes neither.
C38_ChecksCounted ==
  (\A c \in Cycles : pc[c] \in {"idle", "done"}) =>
    /\ store.totalChecks = Cardinality(Successful)
    /\ \A c \in Successful :
         (\A b \in Successful : b <= c) => store.lastCheck = currentTime[c]

\* A step of cycle c restores entity e from one of the statuses.
Restores(c, e, from) ==
  /\ Running(c)
  /\ data[c].players[e].status \in from
  /\ data'[c].players[e].status = "active"

\* A step of cycle c sends the unban notification for entity e.
SendsUnban(c, e) == unbanNotifs'[c][e] > unbanNotifs[c][e]

AuditsOnce(c, e) == unbanAudit'[c][e] = unbanAudit[c][e] + 1

\* C39, as the code has it: the unban notification is sent only for an
\* entity restored from banned; a restoration from suspended or
\* suspension_expired sends none, sets the status to active and appends one
\* audit record, except in the reconciliation loop of a cycle under the
\* restart guard, which restores without an audit record.
C39_UnbanNoticeOnlyForBanned ==
  [][\A c \in Cycles, e \in Entities :
       /\ SendsUnban(c, e) => Restores(c, e, {"banned"}) /\ AuditsOnce(c, e)
       /\ Restores(c, e, {"suspended", "suspension_expired"}) =>
            /\ ~SendsUnban(c, e)
            /\ IF pc[c] = "top2000" /\ isFirstCheckAfterRestart[c]
               THEN unbanAudit'[c][e] = unbanAudit[c][e]
               ELSE AuditsOnce(c, e)]_vars

\* The cycle restored a suspended entity with an audit record and without
\* a notification.
C39_Witness ==
  \E c \in Cycles, e \in Entities :
    /\ storeAtStart[c].players[e].status = "suspended"
    /\ data[c].players[e].status = "active"
    /\ unbanAudit[c][e] = 1
    /\ unbanNotifs[c][e] = 0
    /\ ~isFirstCheckAfterRestart[c]

\* C39, as stated: the unban notification is sent only for an entity whose
\* previous status was banned; every restoration from suspended or
\* suspension_expired appends one audit record, sets the status to active
\* and sends no notification.
C39_EveryRestorationAudited ==
  [][\A c \in Cycles, e \in Entities :
       /\ SendsUnban(c, e) => Restores(c, e, {"banned"})
       /\ Restores(c, e, {"suspended", "suspension_expired"}) =>
            ~SendsUnban(c, e) /\ AuditsOnce(c, e)]_vars

\* The entities the cycle selected for its priority pass.
SelectedFirst(c) == MissingPlayers(storeAtStart[c], currentPlayers[c], currentTime[c])

\* C40: a successful cycle leaves unchanged the record of every entity that
\* is absent from the snapshot, not selected for the priority pass and
\* neither banned nor suspended at cycle start; lastSeen changes only for
\* entities of the snapshot; no entity is ever removed from the store.
C40_AbsentRecordsUntouched ==
  \A c \in Cycles, e \in Entities :
    /\ Completed(c) /\ e \notin currentPlayers[c] =>
         /\ store.players[e].lastSeen = Persisted(c, e).lastSeen
         /\ e \notin SelectedFirst(c) /\ Persisted(c, e).status \notin {"banned", "suspended"} =>
              store.players[e] = Persisted(c, e)
    /\ Persisted(c, e).tracked => store.players[e].tracked /\ data[c].players[e].tracked

\* A cycle completed without an active entity that it had last seen more
\* than six hours before, and changed another record.
C40_Witness ==
  \E c \in Cycles, e \in Entities :
    /\ Completed(c)
    /\ e \notin currentPlayers[c]
    /\ e \notin SelectedFirst(c)
    /\ Persisted(c, e).tracked
    /\ Persisted(c, e).status = "active"
    /\ \E o \in Entities : store.players[o] # Persisted(c, o)

====
